---- MODULE Spec2Model ----
(***************************************************************************)
(* hewpme: the token lifecycle (src/utils/token.rs, src/utils/auth.rs),    *)
(* the start-up of the EventSub client (src/eventsub/mod.rs), the token    *)
(* loading of the chat client (src/chat/mod.rs) and the EventSub websocket *)
(* session (src/websocket.rs), as one state machine.                       *)
(*                                                                         *)
(* Option<T> is modelled as a sequence: None is << >>, Some(x) is <<x>>.   *)
(* Time is a natural number of clock units; every statement that reads a   *)
(* clock may observe any later instant up to MaxTime.                      *)
(***************************************************************************)
EXTENDS Naturals, Integers, Sequences, FiniteSets, TLC

\* ---------------------------------------------------------------- bounds
\* Last instant the clock can show.
MaxTime == 3
\* Longest remaining lifetime (clock units) the provider reports for a token.
MaxLifetime == 2
\* Number of items the read loop of `run` takes from the websocket stream.
MaxFrames == 3

\* Number of nested calls the stack of a thread has room for.
MaxStack == 3

\* ---------------------------------------------------------------- Option
None == << >>
Some(x) == <<x>>
IsSome(o) == o # None
Unwrap(o) == o[1]

\* ------------------------------------------------- authorization callback
\* Anti-forgery tokens the provider's URL generator can hand out.
CsrfTokens == {"csrf1", "csrf2"}

QueryKeys == {"state", "code", "error", "error_description"}

QueryValuesOf(k) ==
    CASE k = "state" -> CsrfTokens
      [] k = "code" -> {"code1"}
      [] k = "error" -> {"access_denied"}
      [] OTHER -> {"denied by user"}

\* Every query map a callback request can carry (HashMap<String, String>).
Queries ==
    UNION { { q \in [K -> UNION {QueryValuesOf(k) : k \in QueryKeys}] :
                \A k \in K : q[k] \in QueryValuesOf(k) } : K \in SUBSET QueryKeys }

\* HashMap::get
Get(query, key) == IF key \in DOMAIN query THEN Some(query[key]) ELSE None

\* UserTokenBuilder::csrf_is_valid as used by verify_csrf_token.
CsrfIsValid(builder_csrf, csrf) == IsSome(builder_csrf) /\ Unwrap(builder_csrf) = csrf

\* verify_csrf_token, mutated: the comparison result is ignored.
VerifyCsrfTokenNoCompare(response, builder_csrf) ==
    IF IsSome(Get(response, "state")) THEN "Ok" ELSE "NoCsrfToken"

\* verify_csrf_token, mutated: a response without `state` is let through.
VerifyCsrfTokenMissingOk(response, builder_csrf) ==
    LET resp_csrf_token == Get(response, "state") IN
    IF IsSome(resp_csrf_token) /\ ~CsrfIsValid(builder_csrf, Unwrap(resp_csrf_token))
    THEN "CsrfTokenMismatch"
    ELSE "Ok"

\* verify_csrf_token: "Ok", or the Error variant returned.
VerifyCsrfToken(response, builder_csrf) ==
    LET resp_csrf_token == Get(response, "state") IN
    IF IsSome(resp_csrf_token)
    THEN IF CsrfIsValid(builder_csrf, Unwrap(resp_csrf_token))
         THEN "Ok"
         ELSE "CsrfTokenMismatch"
    ELSE "NoCsrfToken"

\* extract_pair
ExtractPair(query, key1, key2) == <<Get(query, key1), Get(query, key2)>>

\* extract_url, mutated: `state` and `code` are looked at before the error pair.
ExtractUrlCodeFirst(query) ==
    LET err == ExtractPair(query, "error", "error_description")
        sc == ExtractPair(query, "state", "code")
    IN  IF IsSome(sc[1]) /\ IsSome(sc[2])
        THEN [kind |-> "Ok", state |-> Unwrap(sc[1]), code |-> Unwrap(sc[2])]
        ELSE IF IsSome(err[1]) /\ IsSome(err[2])
             THEN [kind |-> "panic"]
             ELSE [kind |-> "Err"]

\* extract_url, mutated: a missing `code` is taken for an empty one.
ExtractUrlEmptyCode(query) ==
    LET err == ExtractPair(query, "error", "error_description")
        sc == ExtractPair(query, "state", "code")
    IN  IF IsSome(err[1]) /\ IsSome(err[2])
        THEN [kind |-> "panic"]
        ELSE IF IsSome(sc[1])
             THEN [kind |-> "Ok", state |-> Unwrap(sc[1]),
                   code |-> IF IsSome(sc[2]) THEN Unwrap(sc[2]) ELSE ""]
             ELSE [kind |-> "Err"]

\* extract_url, mutated: one of the two error parameters is enough for a
\* denial.
ExtractUrlEitherError(query) ==
    LET err == ExtractPair(query, "error", "error_description")
        sc == ExtractPair(query, "state", "code")
    IN  IF IsSome(err[1]) \/ IsSome(err[2])
        THEN [kind |-> "panic"]
        ELSE IF IsSome(sc[1]) /\ IsSome(sc[2])
             THEN [kind |-> "Ok", state |-> Unwrap(sc[1]), code |-> Unwrap(sc[2])]
             ELSE [kind |-> "Err"]

\* extract_url: a panic on provider denial, Ok((state, code)), or Err(()).
ExtractUrl(query) ==
    LET err == ExtractPair(query, "error", "error_description")
        sc == ExtractPair(query, "state", "code")
    IN  IF IsSome(err[1]) /\ IsSome(err[2])
        THEN [kind |-> "panic"]
        ELSE IF IsSome(sc[1]) /\ IsSome(sc[2])
             THEN [kind |-> "Ok", state |-> Unwrap(sc[1]), code |-> Unwrap(sc[2])]
             ELSE [kind |-> "Err"]

\* ------------------------------------------------------------------ tokens
\* Scope list requested by run_eventsub_client and reported back on validation.
EventsubScopes == <<"moderator:read:followers", "moderator:manage:banned_users",
                    "channel:read:subscriptions">>

\* struct Token
MkToken(access, refresh, created, valid, scopes) ==
    [access_token |-> access, refresh_token |-> refresh, created_at |-> created,
     valid_till |-> valid, scopes |-> scopes]

\* Token records a token file can hold when the program starts.
StoredTokens ==
    { MkToken("access0", r, 0, v, s) :
        r \in {None, Some("refresh0")}, v \in 0..MaxTime, s \in {None, Some(EventsubScopes)} }

\* twitch_oauth2::UserToken: the fields the program reads.
MkUserToken(access, refresh, lifetime, created, scopes) ==
    [access_token |-> access, refresh_token |-> refresh, expires_in |-> lifetime,
     struct_created |-> created, scopes |-> scopes]

\* TwitchToken::expires_in at instant t: the lifetime that is left, never negative.
ExpiresIn(ut, t) ==
    IF ut.expires_in > t - ut.struct_created
    THEN ut.expires_in - (t - ut.struct_created)
    ELSE 0

\* TwitchToken::is_elapsed, mutated: a token is never taken for expired.
IsElapsedNever(ut, t) == FALSE

\* TwitchToken::is_elapsed at instant t.
IsElapsed(ut, t) == ExpiresIn(ut, t) = 0

\* impl From<&UserToken> for Token, evaluated at instant t (Utc::now()).
TokenFromUserToken(ut, t) ==
    MkToken(ut.access_token, ut.refresh_token, t, t + ExpiresIn(ut, t), Some(ut.scopes))

\* The expiry test of Token::into_user_token, mutated: the comparison is
\* written the other way round.
IsExpiredReversed(token, t) == t < token.valid_till

\* The expiry test of Token::into_user_token, evaluated at instant t.
IsExpired(token, t) == token.valid_till < t

\* -------------------------------------------------------------- token file
\* serde_json values a token file is made of.
JsonNull == [json |-> "null"]
JsonString(s) == [json |-> "string", value |-> s]
JsonArray(items) == [json |-> "array", items |-> items]

\* Serialize for DateTime<Utc>: the RFC 3339 text of instant n (seconds since
\* the epoch), kept as its date, its time-of-day fields and its offset.
SerializeDateTime(n) ==
    [date |-> "1970-01-01", hour |-> n \div 3600, minute |-> (n % 3600) \div 60,
     second |-> n % 60, offset |-> "Z"]

\* Deserialize for DateTime<Utc>: the instant the text denotes, None for a
\* value that is not a string holding an RFC 3339 date and time.
DeserializeDateTime(v) ==
    IF v.json # "string" THEN None
    ELSE IF DOMAIN v.value # {"date", "hour", "minute", "second", "offset"} THEN None
    ELSE IF \/ v.value.date # "1970-01-01" \/ v.value.offset # "Z"
            \/ v.value.hour \notin 0..23 \/ v.value.minute \notin 0..59
            \/ v.value.second \notin 0..59
         THEN None
         ELSE Some(v.value.hour * 3600 + v.value.minute * 60 + v.value.second)

\* Serialize for Vec<Scope>: an array of the scopes' names.
SerializeScopes(scopes) == JsonArray([i \in 1..Len(scopes) |-> JsonString(scopes[i])])

\* Deserialize for Vec<Scope>: None for a value that is not an array of strings.
DeserializeScopes(v) ==
    IF v.json # "array" THEN None
    ELSE IF \E i \in 1..Len(v.items) : v.items[i].json # "string" THEN None
    ELSE Some([i \in 1..Len(v.items) |-> v.items[i].value])

\* Serialize for Option<RefreshToken>, mutated: an absent value is written as
\* an empty string.
SerializeRefreshTokenEmptyString(o) ==
    IF IsSome(o) THEN JsonString(Unwrap(o)) ELSE JsonString("")

\* Serialize for Option<RefreshToken>: null for None, the string for Some.
SerializeRefreshToken(o) ==
    IF IsSome(o) THEN JsonString(Unwrap(o)) ELSE JsonNull

\* Serialize for Option<Vec<Scope>>: null for None, the array for Some.
SerializeOptionScopes(o) ==
    IF IsSome(o) THEN SerializeScopes(Unwrap(o)) ELSE JsonNull

\* Deserialize for AccessToken / RefreshToken: None unless a string.
DeserializeString(v) == IF v.json = "string" THEN Some(v.value) ELSE None

\* The fields of #[derive(Serialize, Deserialize)] struct Token.
TokenFields == {"access_token", "refresh_token", "created_at", "valid_till", "scopes"}

\* Token::save: what serde_json::to_writer writes for the record.
TokenToJson(self) ==
    [json |-> "object",
     fields |->
        [k \in TokenFields |->
            CASE k = "access_token" -> JsonString(self.access_token)
              [] k = "refresh_token" -> SerializeRefreshToken(self.refresh_token)
              [] k = "created_at" -> JsonString(SerializeDateTime(self.created_at))
              [] k = "valid_till" -> JsonString(SerializeDateTime(self.valid_till))
              [] OTHER -> SerializeOptionScopes(self.scopes)]]

\* Whether key `key` of the document is missing or null (an Option field then
\* deserializes to None).
Absent(doc, key) == key \notin DOMAIN doc.fields \/ doc.fields[key] = JsonNull

\* The value of a key of the document, null when the key is missing.
Field(doc, key) == IF key \in DOMAIN doc.fields THEN doc.fields[key] ELSE JsonNull

\* get_token_from_file on the content of the file: Some(Token) for Ok, None
\* for Err (no file, or a document that does not deserialize to a Token).
GetTokenFromFile(content) ==
    IF ~IsSome(content) \/ Unwrap(content).json # "object" THEN None
    ELSE LET doc == Unwrap(content)
             access == DeserializeString(Field(doc, "access_token"))
             refresh == DeserializeString(Field(doc, "refresh_token"))
             created == DeserializeDateTime(Field(doc, "created_at"))
             valid == DeserializeDateTime(Field(doc, "valid_till"))
             scopes == DeserializeScopes(Field(doc, "scopes"))
         IN  IF \/ ~IsSome(access) \/ ~IsSome(created) \/ ~IsSome(valid)
                \/ (~Absent(doc, "refresh_token") /\ ~IsSome(refresh))
                \/ (~Absent(doc, "scopes") /\ ~IsSome(scopes))
             THEN None
             ELSE Some(MkToken(Unwrap(access),
                               IF Absent(doc, "refresh_token") THEN None ELSE refresh,
                               Unwrap(created), Unwrap(valid),
                               IF Absent(doc, "scopes") THEN None ELSE scopes))

\* Token::save when the write succeeds: the content of the file afterwards.
Save(self) == Some(TokenToJson(self))

\* The document of a record with the keys of its absent fields left out (a
\* file written by hand or by a build that skips absent fields).
OmitAbsent(self) ==
    LET present == {k \in TokenFields :
                      /\ k = "refresh_token" => IsSome(self.refresh_token)
                      /\ k = "scopes" => IsSome(self.scopes)}
    IN  [json |-> "object", fields |-> [k \in present |-> TokenToJson(self).fields[k]]]

\* What a token file can hold when the program starts: nothing, a document
\* that is not a token record, or a record written by an earlier run.
StoredFiles ==
    {None, Some(JsonNull)}
        \cup {Some(TokenToJson(t)) : t \in StoredTokens}
        \cup {Some(OmitAbsent(t)) : t \in StoredTokens}

\* --------------------------------------------------------------- websocket
\* connect_url the session is constructed with (run_eventsub_client).
InitialUrl == "wss://eventsub.wss.twitch.tv/ws"

\* reconnect_url strings a Welcome or Reconnect payload can carry.
RawUrls == {"wss://reconnect.example/ws", "WSS://RECONNECT.EXAMPLE/ws", "not a url"}

\* str::parse::<Url>: the normalised url, or None for a parse error.
ParseUrl(raw) ==
    CASE raw = "wss://reconnect.example/ws" -> Some("wss://reconnect.example/ws")
      [] raw = "WSS://RECONNECT.EXAMPLE/ws" -> Some("wss://reconnect.example/ws")
      [] OTHER -> None

SessionIds == {"abc", "xyz"}

\* SessionData of a Welcome or Reconnect payload.
SessionFrames ==
    [type : {"welcome", "reconnect"}, id : SessionIds,
     reconnect_url : {None} \cup {Some(u) : u \in RawUrls}]

\* The users notifications are about: payload.user_name and payload.user_id.
Users == {[user_name |-> "alice", user_id |-> "1"], [user_name |-> "bob", user_id |-> "2"]}

\* Notification payloads: the two handled event categories and one other.
NotificationFrames ==
    { [type |-> "notification", event |-> e, user_name |-> u.user_name,
       user_id |-> u.user_id] :
        e \in {"channel.follow", "channel.subscribe", "channel.update"}, u \in Users }

\* Text frames that parse_websocket decodes.
DecodedFrames ==
    SessionFrames \cup NotificationFrames
        \cup {[type |-> "revocation"], [type |-> "keepalive"]}

\* Everything `StreamExt::next` can yield: the end of the stream, a read error,
\* or a message (a text frame, decodable or not, or a control/binary frame).
StreamItems ==
    {[item |-> "end"], [item |-> "reset"], [item |-> "error"],
     [item |-> "close"], [item |-> "ping"], [item |-> "binary"],
     [item |-> "text", ok |-> FALSE]}
        \cup {[item |-> "text", ok |-> TRUE, data |-> f] : f \in DecodedFrames}

\* The subscriptions make_eventsub_subscriptions creates, in order.
Subscriptions == <<"channel.follow", "channel.subscribe">>

\* ------------------------------------------------------------------- state
VARIABLES
    pc,             \* position of run_eventsub_client
    now,            \* the last instant a clock was read at
    file,           \* the eventsub token file: None (no file) or Some(JSON document)
    token,          \* local `token: Token` of run_eventsub_client / `self` of into_user_token
    user_token,     \* the UserToken in hand
    panic,          \* None, or Some(message) once the task has panicked
    auth_server,    \* the spawned run_auth_server task
    channel,        \* the capacity-1 mpsc channel between handler and coordinator
    csrf_token,     \* the anti-forgery token of the current UserTokenBuilder
    url_presented,  \* whether the authorization url has been printed
    auth_response,  \* the query map received from the channel
    provider_calls, \* token requests sent to the provider and its answers, in order
    call_time,      \* the instant into_user_token read
    loaded,         \* what Token::from_file returned in this run: "pending", "Ok" or "Err"
    session_id,     \* WebsocketClient::session_id
    connect_url,    \* WebsocketClient::connect_url
    stream,         \* the stream `s` of `run`: "none", "open", or "ended" once a read found its end
    msg,            \* the item most recently taken from the stream
    frames_read,    \* number of items taken from the stream so far
    handled,        \* what the loop body last ran for (the span of `run`)
    conn_attempts,  \* the connection attempts made and their outcomes, in order
    sub_calls,      \* subscription-creation calls issued and their outcomes, in order
    followers,      \* TwitchEventList::followers_list
    subscribers,    \* TwitchEventList::subscribers_list
    run_result,     \* None while `run` is running, Some(error) once it returned Err
    debug_build,    \* cfg!(feature = "debug") of the build that runs
    chat            \* the chat client's task: its load_token call and authorization

authVars == <<auth_server, channel, csrf_token, url_presented, auth_response>>
tokenVars == <<file, token, user_token, provider_calls, call_time, loaded>>
wsVars == <<session_id, connect_url, stream, msg, frames_read, handled, conn_attempts,
            sub_calls, followers, subscribers, run_result, debug_build>>
vars == <<pc, now, panic, authVars, tokenVars, wsVars, chat>>

\* The chat client's task: where load_token is, the listener task of its
\* authorization attempt, the number of callbacks waiting in its channel, its
\* anti-forgery token, the token it holds, and the chat token file.
ChatTask(at, content) ==
    [pc |-> at, auth_server |-> "none", channel |-> 0, csrf_token |-> None,
     token |-> None, file |-> content]

\* Instants a clock read can return: time does not go backwards.
ClockReads == now..MaxTime

Init ==
    /\ pc = "start"
    /\ now = 1
    /\ file \in StoredFiles
    /\ token = None
    /\ user_token = None
    /\ panic = None
    /\ auth_server = "none"
    /\ channel = << >>
    /\ csrf_token = None
    /\ url_presented = FALSE
    /\ auth_response = None
    /\ provider_calls = << >>
    /\ call_time = None
    /\ loaded = "pending"
    /\ session_id = None
    /\ connect_url = InitialUrl
    /\ stream = "none"
    /\ msg = None
    /\ frames_read = 0
    /\ handled = "nothing"
    /\ conn_attempts = << >>
    /\ sub_calls = << >>
    /\ followers = {}
    /\ subscribers = {}
    /\ run_result = None
    /\ debug_build \in BOOLEAN
    /\ chat = ChatTask("off", None)

\* A panic of the task: it stops where it is.
Panic(message) ==
    /\ pc' = "panicked"
    /\ panic' = Some(message)

\* ------------------------------------------------- run_eventsub_client, start
\* Token::from_file: Ok(token) goes on to save it, Err(_) to the interactive flow.
FromFile ==
    /\ pc = "start"
    /\ IF IsSome(GetTokenFromFile(file))
       THEN /\ token' = GetTokenFromFile(file)
            /\ loaded' = "Ok"
            /\ pc' = "save"
       ELSE /\ token' = None
            /\ loaded' = "Err"
            /\ pc' = "auth_spawn"
    /\ UNCHANGED <<now, panic, authVars, file, user_token, provider_calls, call_time, wsVars>>
    /\ UNCHANGED chat

\* ------------------------------------------------------- request_user_token
\* create_auth_channel and the spawn of run_auth_server.
SpawnAuthServer ==
    /\ pc = "auth_spawn"
    /\ auth_server' = "spawned"
    /\ channel' = << >>
    /\ pc' = "auth_url"
    /\ UNCHANGED <<now, panic, csrf_token, url_presented, auth_response,
                   tokenVars, wsVars>>
    /\ UNCHANGED chat

\* run_auth_server up to `server.await`: the spawned task binds the fixed
\* local port and serves the callback route, or panics in the bind when the
\* port cannot be bound (another listener serves on it, or any other cause),
\* which drops the sender.
RunAuthServer ==
    /\ auth_server = "spawned"
    /\ \E bound \in BOOLEAN :
          /\ bound => chat.auth_server # "serving"
          /\ auth_server' = IF bound THEN "serving" ELSE "failed"
    /\ UNCHANGED <<pc, now, panic, channel, csrf_token, url_presented, auth_response,
                   tokenVars, wsVars>>
    /\ UNCHANGED chat

\* create_token_context, generate_token_url and the println! of the url.
GenerateTokenUrl ==
    /\ pc = "auth_url"
    /\ \E c \in CsrfTokens : csrf_token' = Some(c)
    /\ url_presented' = TRUE
    /\ pc' = "auth_recv"
    /\ UNCHANGED <<now, panic, auth_server, channel, auth_response,
                   tokenVars, wsVars>>
    /\ UNCHANGED chat

\* The statements of request_user_token during which the receiver `rx` is alive.
CoordinatorStages == {"auth_url", "auth_recv", "auth_verify", "auth_extract"}

\* auth_response_handler, mutated: the query is sent and the cancellation
\* token is left alone.
AuthResponseHandlerNoCancel ==
    /\ auth_server \in {"serving", "cancelled"}
    /\ pc \in CoordinatorStages
    /\ Len(channel) < 1
    /\ \E query \in Queries : channel' = Append(channel, query)
    /\ UNCHANGED <<pc, now, panic, auth_server, csrf_token, url_presented, auth_response,
                   tokenVars, wsVars>>
    /\ UNCHANGED chat

\* auth_response_handler for a callback request the server accepted (before
\* the cancellation, so it may still run while the server drains): the query
\* is sent into the channel once the channel has room, and the server is
\* cancelled. (With the receiver gone the send fails and nothing changes.)
AuthResponseHandler ==
    /\ auth_server \in {"serving", "cancelled"}
    /\ pc \in CoordinatorStages
    /\ Len(channel) < 1
    /\ \E query \in Queries : channel' = Append(channel, query)
    /\ auth_server' = "cancelled"
    /\ UNCHANGED <<pc, now, panic, csrf_token, url_presented, auth_response,
                   tokenVars, wsVars>>
    /\ UNCHANGED chat

\* The end of run_auth_server: the graceful shutdown is over and `server.await`
\* returns.
FinishAuthServer ==
    /\ auth_server = "cancelled"
    /\ auth_server' = "finished"
    /\ UNCHANGED <<pc, now, panic, channel, csrf_token, url_presented, auth_response,
                   tokenVars, wsVars>>
    /\ UNCHANGED chat

\* `rx.recv().await.expect(..)` and the hand-over of the server task to a
\* blocking thread: the first query in the channel, or a panic when the sender
\* is gone and the channel is empty.
RecvAuthResponse ==
    /\ pc = "auth_recv"
    /\ IF Len(channel) > 0
       THEN /\ auth_response' = Some(Head(channel))
            /\ channel' = Tail(channel)
            /\ pc' = "auth_verify"
            /\ UNCHANGED panic
       ELSE /\ auth_server = "failed"
            /\ Panic("Unable to get authentication response")
            /\ UNCHANGED <<auth_response, channel>>
    /\ UNCHANGED <<now, auth_server, csrf_token, url_presented, tokenVars, wsVars>>
    /\ UNCHANGED chat

\* The verify_csrf_token check of request_user_token.
VerifyCsrf ==
    /\ pc = "auth_verify"
    /\ LET result == VerifyCsrfToken(Unwrap(auth_response), csrf_token) IN
       IF result = "Ok"
       THEN /\ pc' = "auth_extract"
            /\ UNCHANGED <<panic, channel>>
       ELSE \* the panic unwinds request_user_token and drops the receiver
            /\ Panic(result)
            /\ channel' = << >>
    /\ UNCHANGED <<now, auth_server, csrf_token, url_presented, auth_response,
                   tokenVars, wsVars>>
    /\ UNCHANGED chat

\* One request to the provider's token endpoints and its answer.
ProviderCall(call, accepted) == [call |-> call, accepted |-> accepted]

\* The answers the provider gave to the requests of kind `call`, in order.
AnswersTo(call) ==
    LET RECURSIVE pick(_)
        pick(log) ==
            IF log = << >> THEN << >>
            ELSE IF Head(log).call = call
                 THEN <<Head(log).accepted>> \o pick(Tail(log))
                 ELSE pick(Tail(log))
    IN  pick(provider_calls)

\* The match on extract_url and UserTokenBuilder::get_user_token.
GetUserToken ==
    /\ pc = "auth_extract"
    /\ LET extracted == ExtractUrl(Unwrap(auth_response)) IN
       CASE extracted.kind = "panic" ->
              /\ Panic("Unable to get token")
              /\ UNCHANGED <<now, user_token, provider_calls>>
         [] extracted.kind = "Err" ->
              /\ Panic("not yet implemented")
              /\ UNCHANGED <<now, user_token, provider_calls>>
         [] OTHER ->
              IF ~CsrfIsValid(csrf_token, extracted.state)
              THEN \* get_user_token re-checks the state before any request
                   /\ Panic("Failed to get user token from Twitch")
                   /\ UNCHANGED <<now, user_token, provider_calls>>
              ELSE \E accepted \in BOOLEAN, t \in ClockReads, lifetime \in 1..MaxLifetime :
                    /\ now' = t
                    /\ provider_calls' = Append(provider_calls,
                                                ProviderCall("exchange", accepted))
                    /\ IF accepted
                       THEN /\ user_token' = Some(MkUserToken("access2", Some("refresh2"),
                                                              lifetime, t, EventsubScopes))
                            /\ pc' = "auth_convert"
                            /\ UNCHANGED panic
                       ELSE /\ Panic("Failed to get user token from Twitch")
                            /\ UNCHANGED user_token
    \* request_user_token returns or unwinds: the receiver is dropped
    /\ channel' = << >>
    /\ UNCHANGED <<auth_server, csrf_token, url_presented, auth_response,
                   file, token, call_time, loaded, wsVars>>
    /\ UNCHANGED chat

\* `token_handler.get_user_token().into()` in run_eventsub_client.
ConvertUserToken ==
    /\ pc = "auth_convert"
    /\ \E t \in ClockReads :
          /\ now' = t
          /\ token' = Some(TokenFromUserToken(Unwrap(user_token), t))
    /\ pc' = "save"
    /\ UNCHANGED <<panic, authVars, file, user_token, provider_calls, call_time, loaded,
                   wsVars>>
    /\ UNCHANGED chat

\* `token.save(config_file).expect(..)` in run_eventsub_client.
SaveToken ==
    /\ pc = "save"
    /\ \E written \in BOOLEAN :
          IF written
          THEN /\ file' = Save(Unwrap(token))
               /\ pc' = "into_user_token"
               /\ UNCHANGED panic
          ELSE /\ Panic("Unable to save EventSub token")
               /\ UNCHANGED file
    /\ UNCHANGED <<now, authVars, token, user_token, provider_calls, call_time, loaded,
                   wsVars>>
    /\ UNCHANGED chat

\* ---------------------------------------------------- Token::into_user_token
\* The branch into_user_token takes for `token` at instant t.
Branch(self, t) == IF IsExpired(self, t) THEN "refresh_expired" ELSE "from_existing"

\* The clock read and the expiry test that open into_user_token.
IntoUserToken ==
    /\ pc = "into_user_token"
    /\ \E t \in ClockReads :
          /\ now' = t
          /\ call_time' = Some(t)
          /\ pc' = Branch(Unwrap(token), t)
    /\ UNCHANGED <<panic, authVars, file, token, user_token, provider_calls, loaded,
                   wsVars>>
    /\ UNCHANGED chat

\* `.expect("Unable to refresh token")`, mutated: a rejected refresh grant
\* starts the interactive authorization instead.
RefreshRejectedReauthorize ==
    /\ pc' = "auth_spawn"
    /\ UNCHANGED panic

\* `.expect("Unable to refresh token")` on a rejected refresh grant.
RefreshRejected == Panic("Unable to refresh token")

\* refresh_expired, mutated: absent scopes are taken for an empty scope list
\* and the refresh grant is requested.
RefreshExpiredDefaultScopes ==
    /\ pc = "refresh_expired"
    /\ LET self == Unwrap(token) IN
       IF ~IsSome(self.refresh_token)
       THEN /\ Panic("Unable to refresh token")
            /\ UNCHANGED <<now, user_token, provider_calls>>
       ELSE \E refreshed \in BOOLEAN, t \in ClockReads :
              /\ now' = t
              /\ IF ~refreshed
                 THEN /\ provider_calls' = Append(provider_calls,
                                                  ProviderCall("refresh", FALSE))
                      /\ RefreshRejected
                      /\ UNCHANGED user_token
                 ELSE \E validated \in BOOLEAN, lifetime \in 1..MaxLifetime :
                      /\ provider_calls' = provider_calls \o
                            <<ProviderCall("refresh", TRUE), ProviderCall("validate", validated)>>
                      /\ IF validated
                         THEN /\ user_token' = Some(MkUserToken("access1", Some("refresh1"),
                                                                lifetime, t, EventsubScopes))
                              /\ pc' = "save_refreshed"
                              /\ UNCHANGED panic
                         ELSE /\ Panic("Unable to get token")
                              /\ UNCHANGED user_token
    /\ UNCHANGED <<authVars, file, token, call_time, loaded, wsVars>>
    /\ UNCHANGED chat

\* refresh_expired: the unwrap of the scopes, the refresh grant, and the
\* validation (from_existing) of the refreshed token.
RefreshExpired ==
    /\ pc = "refresh_expired"
    /\ LET self == Unwrap(token) IN
       IF ~IsSome(self.scopes)
       THEN /\ Panic("called Option::unwrap on a None value")
            /\ UNCHANGED <<now, user_token, provider_calls>>
       ELSE IF ~IsSome(self.refresh_token)
       THEN \* UserToken::refresh_token without a refresh token: an error, no request
            /\ Panic("Unable to refresh token")
            /\ UNCHANGED <<now, user_token, provider_calls>>
       ELSE \E refreshed \in BOOLEAN, t \in ClockReads :
              /\ now' = t
              /\ IF ~refreshed
                 THEN /\ provider_calls' = Append(provider_calls,
                                                  ProviderCall("refresh", FALSE))
                      /\ RefreshRejected
                      /\ UNCHANGED user_token
                 ELSE \E validated \in BOOLEAN, lifetime \in 1..MaxLifetime :
                      /\ provider_calls' = provider_calls \o
                            <<ProviderCall("refresh", TRUE), ProviderCall("validate", validated)>>
                      /\ IF validated
                         THEN /\ user_token' = Some(MkUserToken("access1", Some("refresh1"),
                                                                lifetime, t, EventsubScopes))
                              /\ pc' = "save_refreshed"
                              /\ UNCHANGED panic
                         ELSE /\ Panic("Unable to get token")
                              /\ UNCHANGED user_token
    /\ UNCHANGED <<authVars, file, token, call_time, loaded, wsVars>>
    /\ UNCHANGED chat

\* The expired branch of into_user_token, mutated: the refreshed record is
\* saved to the chat token file.
SaveRefreshedToChatFile ==
    /\ pc = "save_refreshed"
    /\ \E t \in ClockReads, written \in BOOLEAN :
          /\ now' = t
          /\ IF written
             THEN /\ chat' = [chat EXCEPT
                                !.file = Save(TokenFromUserToken(Unwrap(user_token), t))]
                  /\ pc' = "new_client"
                  /\ UNCHANGED panic
             ELSE /\ Panic("Unable to store refreshed token")
                  /\ UNCHANGED chat
    /\ UNCHANGED <<authVars, tokenVars, wsVars>>

\* The expired branch of into_user_token after refresh_expired returned: the
\* conversion of the refreshed token and its save to the eventsub token file.
SaveRefreshed ==
    /\ pc = "save_refreshed"
    /\ \E t \in ClockReads, written \in BOOLEAN :
          /\ now' = t
          /\ IF written
             THEN /\ file' = Save(TokenFromUserToken(Unwrap(user_token), t))
                  /\ pc' = "new_client"
                  /\ UNCHANGED panic
             ELSE /\ Panic("Unable to store refreshed token")
                  /\ UNCHANGED file
    /\ UNCHANGED <<authVars, token, user_token, provider_calls, call_time, loaded, wsVars>>
    /\ UNCHANGED chat

\* from_existing, the branch of into_user_token for a token that is not expired.
FromExisting ==
    /\ pc = "from_existing"
    /\ LET self == Unwrap(token) IN
       \E validated \in BOOLEAN, t \in ClockReads, lifetime \in 1..MaxLifetime :
          /\ now' = t
          /\ provider_calls' = Append(provider_calls, ProviderCall("validate", validated))
          /\ IF validated
             THEN /\ user_token' = Some(MkUserToken(self.access_token, self.refresh_token,
                                                    lifetime, t, EventsubScopes))
                  /\ pc' = "new_client"
                  /\ UNCHANGED panic
             ELSE /\ Panic("Unable to get token")
                  /\ UNCHANGED user_token
    /\ UNCHANGED <<authVars, file, token, call_time, loaded, wsVars>>
    /\ UNCHANGED chat

\* get_user_id and WebsocketClient::new in run_eventsub_client.
NewClient ==
    /\ pc = "new_client"
    /\ \E found \in BOOLEAN :
          IF found
          THEN /\ pc' = "connect"
               /\ UNCHANGED panic
          ELSE Panic("Unable to get User ID from Twitch")
    /\ session_id' = None
    /\ connect_url' = InitialUrl
    /\ UNCHANGED <<now, authVars, tokenVars, stream, msg, frames_read, handled,
                   conn_attempts, sub_calls, followers, subscribers, run_result,
                   debug_build>>
    /\ UNCHANGED chat

\* ------------------------------------------------------ WebsocketClient::run
\* WebsocketClient::connect, mutated: the transport is opened to the url the
\* session was configured with.
ConnectTargetConfigured(url) == InitialUrl

\* The url WebsocketClient::connect opens a transport to.
ConnectTarget(url) == url

\* WebsocketClient::connect: one connection attempt and its outcome.
ConnectAttempt(connected) == [url |-> ConnectTarget(connect_url), connected |-> connected]

\* `self.connect().await?` that opens `run`, mutated: a failed attempt is
\* made again.
ConnectRetrying ==
    /\ pc = "connect"
    /\ \E connected \in BOOLEAN :
          /\ conn_attempts' = Append(conn_attempts, ConnectAttempt(connected))
          /\ IF connected
             THEN /\ pc' = "read"
                  /\ stream' = "open"
             ELSE UNCHANGED <<pc, stream>>
    /\ UNCHANGED <<now, panic, authVars, tokenVars, session_id, connect_url, msg,
                   frames_read, handled, sub_calls, followers, subscribers, run_result,
                   debug_build>>
    /\ UNCHANGED chat

\* `self.connect().await?` that opens `run`.
Connect ==
    /\ pc = "connect"
    /\ \E connected \in BOOLEAN :
          /\ conn_attempts' = Append(conn_attempts, ConnectAttempt(connected))
          /\ IF connected
             THEN /\ pc' = "read"
                  /\ stream' = "open"
                  /\ UNCHANGED run_result
             ELSE /\ pc' = "run_returned"
                  /\ run_result' = Some("connect error")
                  /\ UNCHANGED stream
    /\ UNCHANGED <<now, panic, authVars, tokenVars, session_id, connect_url, msg,
                   frames_read, handled, sub_calls, followers, subscribers, debug_build>>
    /\ UNCHANGED chat

\* What a read of the stream can yield, mutated: a stream that has ended
\* yields items again.
ReadableAfterEnd == StreamItems

\* What a read of the stream can yield: anything while it is open, and its
\* end again once a read has found the end.
Readable == IF stream = "ended" THEN {[item |-> "end"]} ELSE StreamItems

\* `StreamExt::next(&mut s).await` at the head of the loop. A read that finds
\* the end of the stream takes no item from it.
NextItem ==
    /\ pc = "read"
    /\ \E item \in Readable :
          /\ msg' = Some(item)
          /\ IF item.item = "end"
             THEN /\ stream' = "ended"
                  /\ UNCHANGED frames_read
             ELSE /\ frames_read < MaxFrames
                  /\ frames_read' = frames_read + 1
                  /\ UNCHANGED stream
    /\ pc' = "process"
    /\ UNCHANGED <<now, panic, authVars, tokenVars, session_id, connect_url, handled,
                   conn_attempts, sub_calls, followers, subscribers, run_result,
                   debug_build>>
    /\ UNCHANGED chat

\* make_eventsub_subscriptions, mutated: a rejected call does not stop the
\* calls after it.
SubscriptionCallsNoAbort(id, failing) ==
    [i \in 1..Len(Subscriptions) |->
        [event |-> Subscriptions[i], session |-> id, accepted |-> (i # failing)]]

\* make_eventsub_subscriptions, mutated: the two calls are issued in the
\* opposite order.
SubscriptionCallsSwapped(id, failing) ==
    LET issued == IF failing = 0 THEN Len(Subscriptions) ELSE failing
    IN  [i \in 1..issued |->
            [event |-> Subscriptions[Len(Subscriptions) + 1 - i], session |-> id,
             accepted |-> (i # failing)]]

\* make_eventsub_subscriptions, mutated: a registry of the sessions already
\* subscribed suppresses the calls of a repeated Welcome.
SubscriptionCallsOncePerSession(id, failing) ==
    LET issued == IF failing = 0 THEN Len(Subscriptions) ELSE failing
    IN  IF \E i \in 1..Len(sub_calls) : sub_calls[i].session = id /\ sub_calls[i].accepted
        THEN << >>
        ELSE [i \in 1..issued |->
                [event |-> Subscriptions[i], session |-> id, accepted |-> (i # failing)]]

\* make_eventsub_subscriptions: the calls issued for session `id` when call
\* number `failing` is rejected (0: none is); `?` returns at the rejected one.
SubscriptionCalls(id, failing) ==
    LET issued == IF failing = 0 THEN Len(Subscriptions) ELSE failing
    IN  [i \in 1..issued |->
            [event |-> Subscriptions[i], session |-> id, accepted |-> (i # failing)]]

\* process_welcome_message, mutated: the reconnect url is not adopted.
WelcomeConnectUrlKept(data, url) ==
    IF IsSome(data.reconnect_url) /\ ~IsSome(ParseUrl(Unwrap(data.reconnect_url)))
    THEN None
    ELSE Some(url)

\* The connect_url after `self.connect_url = url.parse()?` of
\* process_welcome_message: None when the parse fails.
WelcomeConnectUrl(data, url) ==
    IF IsSome(data.reconnect_url)
    THEN ParseUrl(Unwrap(data.reconnect_url))
    ELSE Some(url)

\* put_follower_name / put_subscriber_name: the rendered display identity, the
\* name followed by the id in a debug build and the name alone otherwise.
DisplayName(payload) ==
    IF debug_build THEN payload.user_name \o payload.user_id ELSE payload.user_name

\* handle_notification, mutated: every event category is taken for a follow.
FollowersAfterAnyEvent(payload, set) == set \cup {DisplayName(payload)}

\* handle_notification: the follower set after the event.
FollowersAfter(payload, set) ==
    IF payload.event = "channel.follow" THEN set \cup {DisplayName(payload)} ELSE set

\* handle_notification, mutated: a follow is recorded as a subscription too.
SubscribersAfterFollowToo(payload, set) ==
    IF payload.event \in {"channel.subscribe", "channel.follow"}
    THEN set \cup {DisplayName(payload)}
    ELSE set

\* handle_notification: the subscriber set after the event.
SubscribersAfter(payload, set) ==
    IF payload.event = "channel.subscribe" THEN set \cup {DisplayName(payload)} ELSE set

\* `run` returns Err(error), mutated: the error is dropped and the loop goes on.
RunReturnsGoesOn(error) ==
    /\ pc' = "read"
    /\ UNCHANGED <<run_result, panic>>

\* `run` returns Err(error).
RunReturns(error) ==
    /\ pc' = "run_returned"
    /\ run_result' = Some(error)
    /\ UNCHANGED panic

\* The loop goes on to the next read.
RunContinues ==
    /\ pc' = "read"
    /\ UNCHANGED <<run_result, panic>>

\* process_welcome_message, reached for Welcome and for Reconnect frames.
ProcessWelcomeMessage(data) ==
    /\ session_id' = Some(data.id)
    /\ LET url == WelcomeConnectUrl(data, connect_url) IN
       IF ~IsSome(url)
       THEN /\ RunReturns("url parse error")
            /\ UNCHANGED <<now, connect_url, sub_calls>>
       ELSE /\ connect_url' = Unwrap(url)
            /\ \E t \in ClockReads :
                  /\ now' = t
                  /\ IF IsElapsed(Unwrap(user_token), t)
                     THEN /\ Panic("not yet implemented: Token expired - handle that somehow")
                          /\ UNCHANGED <<sub_calls, run_result>>
                     ELSE \E failing \in 0..Len(Subscriptions) :
                            /\ sub_calls' = sub_calls \o SubscriptionCalls(data.id, failing)
                            /\ IF failing = 0
                               THEN RunContinues
                               ELSE RunReturns("subscription error")
    /\ UNCHANGED <<conn_attempts, followers, subscribers>>

\* process_message for a text frame that decoded, mutated: a Reconnect frame
\* only replaces connect_url.
ProcessFrameReconnectUrlOnly(data) ==
    CASE data.type = "welcome" -> ProcessWelcomeMessage(data)
      [] data.type = "reconnect" ->
            LET url == WelcomeConnectUrl(data, connect_url) IN
            /\ IF IsSome(url)
               THEN connect_url' = Unwrap(url) /\ RunContinues
               ELSE UNCHANGED connect_url /\ RunReturns("url parse error")
            /\ UNCHANGED <<now, session_id, conn_attempts, sub_calls, followers, subscribers>>
      [] data.type = "notification" ->
            /\ followers' = FollowersAfter(data, followers)
            /\ subscribers' = SubscribersAfter(data, subscribers)
            /\ RunContinues
            /\ UNCHANGED <<now, session_id, connect_url, conn_attempts, sub_calls>>
      [] OTHER ->
            /\ RunContinues
            /\ UNCHANGED <<now, session_id, connect_url, conn_attempts, sub_calls,
                           followers, subscribers>>

\* process_message for a text frame that decoded.
ProcessFrame(data) ==
    CASE data.type \in {"welcome", "reconnect"} -> ProcessWelcomeMessage(data)
      [] data.type = "notification" ->
            /\ followers' = FollowersAfter(data, followers)
            /\ subscribers' = SubscribersAfter(data, subscribers)
            /\ RunContinues
            /\ UNCHANGED <<now, session_id, connect_url, conn_attempts, sub_calls>>
      [] OTHER ->
            /\ RunContinues
            /\ UNCHANGED <<now, session_id, connect_url, conn_attempts, sub_calls,
                           followers, subscribers>>

\* What the span of one loop iteration names: the kind of the item.
Kind(m) == IF m.item = "text" /\ m.ok THEN m.data.type ELSE m.item

\* The body of the loop of `run` for the item just read.
ProcessItem ==
    /\ pc = "process"
    /\ LET m == Unwrap(msg) IN
       /\ handled' = Kind(m)
       /\ CASE m.item = "end" ->
              /\ RunContinues
              /\ UNCHANGED <<now, session_id, connect_url, conn_attempts, sub_calls,
                             followers, subscribers>>
         [] m.item = "reset" ->
              \* `s = self.connect()`: on success `s` is a new open stream
              /\ \E connected \in BOOLEAN :
                    /\ conn_attempts' = Append(conn_attempts, ConnectAttempt(connected))
                    /\ IF connected THEN RunContinues ELSE RunReturns("connect error")
              /\ UNCHANGED <<now, session_id, connect_url, sub_calls, followers, subscribers>>
         [] m.item = "error" ->
              /\ RunReturns("read error")
              /\ UNCHANGED <<now, session_id, connect_url, conn_attempts, sub_calls,
                             followers, subscribers>>
         [] m.item = "close" ->
              /\ Panic("not yet implemented")
              /\ UNCHANGED <<now, session_id, connect_url, conn_attempts, sub_calls,
                             followers, subscribers, run_result>>
         [] m.item = "text" /\ ~m.ok ->
              /\ RunReturns("parse error")
              /\ UNCHANGED <<now, session_id, connect_url, conn_attempts, sub_calls,
                             followers, subscribers>>
         [] m.item = "text" /\ m.ok -> ProcessFrame(m.data)
         [] OTHER ->
              /\ RunContinues
              /\ UNCHANGED <<now, session_id, connect_url, conn_attempts, sub_calls,
                             followers, subscribers>>
    /\ msg' = None
    /\ UNCHANGED <<authVars, tokenVars, stream, frames_read, debug_build>>
    /\ UNCHANGED chat

\* `ws.run().await.expect(..)` in run_eventsub_client once `run` returned Err.
ExpectRun ==
    /\ pc = "run_returned"
    /\ Panic("Websocket client finished its execution")
    /\ UNCHANGED <<now, authVars, tokenVars, wsVars>>
    /\ UNCHANGED chat

\* ------------------------------------------------------ the chat client's task
\* Scope list requested by ChatTokenStorage::load_token.
ChatScopes == <<"chat:read", "chat:edit">>

\* What the chat task leaves alone: everything of the EventSub task but the clock.
eventsubVars == <<pc, panic, authVars, tokenVars, wsVars>>

\* Token::from_file(chat_config) in load_token: Ok(token) goes on to the save,
\* Err(_) to request_user_token.
ChatFromFile ==
    /\ chat.pc = "start"
    /\ chat' = IF IsSome(GetTokenFromFile(chat.file))
               THEN [chat EXCEPT !.pc = "save", !.token = GetTokenFromFile(chat.file)]
               ELSE [chat EXCEPT !.pc = "auth_spawn"]
    /\ UNCHANGED <<now, eventsubVars>>

\* request_user_token called for the chat token: create_auth_channel and the
\* spawn of run_auth_server.
ChatSpawnAuthServer ==
    /\ chat.pc = "auth_spawn"
    /\ chat' = [chat EXCEPT !.pc = "auth_url", !.auth_server = "spawned", !.channel = 0]
    /\ UNCHANGED <<now, eventsubVars>>

\* run_auth_server of the chat attempt up to `server.await`: the bind of the
\* same fixed local port.
ChatRunAuthServer ==
    /\ chat.auth_server = "spawned"
    /\ \E bound \in BOOLEAN :
          /\ bound => auth_server # "serving"
          /\ chat' = [chat EXCEPT !.auth_server = IF bound THEN "serving" ELSE "failed"]
    /\ UNCHANGED <<now, eventsubVars>>

\* create_token_context, generate_token_url and the println! of the url.
ChatGenerateTokenUrl ==
    /\ chat.pc = "auth_url"
    /\ \E c \in CsrfTokens : chat' = [chat EXCEPT !.pc = "auth_recv", !.csrf_token = Some(c)]
    /\ UNCHANGED <<now, eventsubVars>>

\* auth_response_handler of the chat attempt's listener: a query is sent into
\* the channel and the server is cancelled. (The query itself is drawn where
\* the coordinator reads it, in ChatGetUserToken.)
ChatAuthResponseHandler ==
    /\ chat.auth_server \in {"serving", "cancelled"}
    /\ chat.pc \in CoordinatorStages
    /\ chat.channel < 1
    /\ chat' = [chat EXCEPT !.channel = chat.channel + 1, !.auth_server = "cancelled"]
    /\ UNCHANGED <<now, eventsubVars>>

\* The end of run_auth_server of the chat attempt.
ChatFinishAuthServer ==
    /\ chat.auth_server = "cancelled"
    /\ chat' = [chat EXCEPT !.auth_server = "finished"]
    /\ UNCHANGED <<now, eventsubVars>>

\* `rx.recv().await.expect(..)` of the chat attempt.
ChatRecvAuthResponse ==
    /\ chat.pc = "auth_recv"
    /\ IF chat.channel > 0
       THEN chat' = [chat EXCEPT !.pc = "auth_verify", !.channel = chat.channel - 1]
       ELSE /\ chat.auth_server = "failed"
            /\ chat' = [chat EXCEPT !.pc = "panicked"]
    /\ UNCHANGED <<now, eventsubVars>>

\* The rest of request_user_token for the chat attempt, on the query received:
\* verify_csrf_token, extract_url, get_user_token, and the conversion of the
\* token in load_token.
ChatGetUserToken ==
    /\ chat.pc = "auth_verify"
    /\ \E query \in Queries :
          IF \/ VerifyCsrfToken(query, chat.csrf_token) # "Ok"
             \/ ExtractUrl(query).kind # "Ok"
          THEN /\ chat' = [chat EXCEPT !.pc = "panicked", !.channel = 0]
               /\ UNCHANGED now
          ELSE \E accepted \in BOOLEAN, t \in ClockReads, lifetime \in 1..MaxLifetime :
                 /\ now' = t
                 /\ chat' = IF accepted
                            THEN [chat EXCEPT
                                    !.pc = "save", !.channel = 0,
                                    !.token = Some(TokenFromUserToken(
                                        MkUserToken("access3", Some("refresh3"), lifetime,
                                                    t, ChatScopes), t))]
                            ELSE [chat EXCEPT !.pc = "panicked", !.channel = 0]
    /\ UNCHANGED eventsubVars

\* `token.save(chat_config)?` and the UserAccessToken load_token returns, with
\* its unwrap of the refresh token.
ChatSaveToken ==
    /\ chat.pc = "save"
    /\ \E written \in BOOLEAN :
          chat' = IF ~written
                  THEN [chat EXCEPT !.pc = "failed"]
                  ELSE [chat EXCEPT
                          !.file = Save(Unwrap(chat.token)),
                          !.pc = IF IsSome(Unwrap(chat.token).refresh_token)
                                 THEN "done" ELSE "panicked"]
    /\ UNCHANGED <<now, eventsubVars>>

\* A later start of the process: the run so far is over (it panicked, or it
\* was stopped after start-up), the token file keeps its content, the clock
\* goes on, and run_eventsub_client begins again with fresh memory.
Restart ==
    /\ pc \in {"panicked", "connect"}
    /\ pc' = "start"
    /\ token' = None
    /\ user_token' = None
    /\ panic' = None
    /\ auth_server' = "none"
    /\ channel' = << >>
    /\ csrf_token' = None
    /\ url_presented' = FALSE
    /\ auth_response' = None
    /\ provider_calls' = << >>
    /\ call_time' = None
    /\ loaded' = "pending"
    /\ UNCHANGED <<now, file, wsVars>>
    /\ UNCHANGED chat

\* --------------------------------------------------------------- the system
\* Start-up of the EventSub client: the token file, the interactive
\* authorization, and Token::into_user_token, up to the constructed session.
Next ==
    \/ FromFile
    \/ SpawnAuthServer
    \/ RunAuthServer
    \/ GenerateTokenUrl
    \/ AuthResponseHandler
    \/ FinishAuthServer
    \/ RecvAuthResponse
    \/ VerifyCsrf
    \/ GetUserToken
    \/ ConvertUserToken
    \/ SaveToken
    \/ IntoUserToken
    \/ RefreshExpired
    \/ SaveRefreshed
    \/ FromExisting
    \/ NewClient
    \/ Restart

Spec == Init /\ [][Next]_vars

\* UserTokens a session can be constructed with: validated at `created` with
\* `lifetime` left.
SessionTokens ==
    { MkUserToken("access0", Some("refresh0"), lifetime, created, EventsubScopes) :
        lifetime \in 1..MaxLifetime, created \in 0..1 }

\* The state WebsocketClient::new leaves: no session id, the configured url,
\* empty event lists, and `run` about to start.
SessionInit ==
    /\ pc = "connect"
    /\ now = 1
    /\ file = None
    /\ token = None
    /\ user_token \in {Some(ut) : ut \in SessionTokens}
    /\ panic = None
    /\ auth_server = "none"
    /\ channel = << >>
    /\ csrf_token = None
    /\ url_presented = FALSE
    /\ auth_response = None
    /\ provider_calls = << >>
    /\ call_time = None
    /\ loaded = "Ok"
    /\ session_id = None
    /\ connect_url = InitialUrl
    /\ stream = "none"
    /\ msg = None
    /\ frames_read = 0
    /\ handled = "nothing"
    /\ conn_attempts = << >>
    /\ sub_calls = << >>
    /\ followers = {}
    /\ subscribers = {}
    /\ run_result = None
    /\ debug_build \in BOOLEAN
    /\ chat = ChatTask("off", None)

\* WebsocketClient::run and the caller's `expect` on its result.
SessionNext ==
    \/ Connect
    \/ NextItem
    \/ ProcessItem
    \/ ExpectRun

SessionSpec == SessionInit /\ [][SessionNext]_vars

\* Token records the two token files can hold when both tasks start.
PeerStoredTokens == {t \in StoredTokens : t.valid_till = MaxTime /\ IsSome(t.scopes)}

\* The files the two tasks can find: none, or a record.
PeerStoredFiles == {None} \cup {Some(TokenToJson(t)) : t \in PeerStoredTokens}

\* The process start with the chat client and the EventSub client as peer
\* tasks, each about to load its own token file.
PeerInit ==
    /\ pc = "start"
    /\ now = 1
    /\ file \in PeerStoredFiles
    /\ token = None
    /\ user_token = None
    /\ panic = None
    /\ auth_server = "none"
    /\ channel = << >>
    /\ csrf_token = None
    /\ url_presented = FALSE
    /\ auth_response = None
    /\ provider_calls = << >>
    /\ call_time = None
    /\ loaded = "pending"
    /\ session_id = None
    /\ connect_url = InitialUrl
    /\ stream = "none"
    /\ msg = None
    /\ frames_read = 0
    /\ handled = "nothing"
    /\ conn_attempts = << >>
    /\ sub_calls = << >>
    /\ followers = {}
    /\ subscribers = {}
    /\ run_result = None
    /\ debug_build \in BOOLEAN
    /\ chat \in {ChatTask("start", f) : f \in PeerStoredFiles}

\* The token acquisition of the two peer tasks, interleaved.
PeerNext ==
    \/ FromFile
    \/ SpawnAuthServer
    \/ RunAuthServer
    \/ GenerateTokenUrl
    \/ AuthResponseHandler
    \/ FinishAuthServer
    \/ RecvAuthResponse
    \/ VerifyCsrf
    \/ GetUserToken
    \/ ConvertUserToken
    \/ SaveToken
    \/ ChatFromFile
    \/ ChatSpawnAuthServer
    \/ ChatRunAuthServer
    \/ ChatGenerateTokenUrl
    \/ ChatAuthResponseHandler
    \/ ChatFinishAuthServer
    \/ ChatRecvAuthResponse
    \/ ChatGetUserToken
    \/ ChatSaveToken

PeerSpec == PeerInit /\ [][PeerNext]_vars

\* ------------------------------------------- conversions of UserAccessToken
\* Duration::from_secs(600): the lifetime assumed when expires_at is absent.
DefaultLifetime == 600

\* twitch_irc::login::UserAccessToken
MkUserAccessToken(access, refresh, created, expires) ==
    [access_token |-> access, refresh_token |-> refresh, created_at |-> created,
     expires_at |-> expires]

\* The UserAccessTokens the chat credentials can hand to a conversion.
UserAccessTokens ==
    { MkUserAccessToken(a, "refresh4", c, e) :
        a \in {"access4", "access5"}, c \in 0..MaxTime,
        e \in {None} \cup {Some(t) : t \in 0..MaxTime} }

\* impl From<&UserAccessToken> for Token
TokenFromUserAccessTokenRef(value) ==
    MkToken(value.access_token, Some(value.refresh_token), value.created_at,
            IF IsSome(value.expires_at)
            THEN Unwrap(value.expires_at)
            ELSE value.created_at + DefaultLifetime,
            None)

\* The chat task about to convert `value`: at "from_owned" by
\* `Token::from(value)` on the owned value, at "update_token" by update_token
\* on a reference. `depth` counts the calls of the owned conversion that have
\* not returned.
ConversionTask(at, value) ==
    [pc |-> at, auth_server |-> "none", channel |-> 0, csrf_token |-> None,
     token |-> None, file |-> None, value |-> value, depth |-> 0]

\* impl From<UserAccessToken> for Token: the body is `value.into()`, which for
\* an owned UserAccessToken and the target Token is Into::into of the blanket
\* impl, that is Token::from(value), this function again. Each call takes a
\* stack frame and calls on; with the stack used up the process is aborted
\* for stack overflow. No call returns.
FromUserAccessToken ==
    /\ chat.pc = "from_owned"
    /\ chat' = IF chat.depth < MaxStack
               THEN [chat EXCEPT !.depth = chat.depth + 1]
               ELSE [chat EXCEPT !.pc = "aborted"]
    /\ UNCHANGED <<now, eventsubVars>>

\* ChatTokenStorage::update_token: the conversion of the referenced token and
\* the save of the record to the chat token file.
UpdateToken ==
    /\ chat.pc = "update_token"
    /\ \E written \in BOOLEAN :
          chat' = IF written
                  THEN [chat EXCEPT
                          !.token = Some(TokenFromUserAccessTokenRef(chat.value)),
                          !.file = Save(TokenFromUserAccessTokenRef(chat.value)),
                          !.pc = "done"]
                  ELSE [chat EXCEPT
                          !.token = Some(TokenFromUserAccessTokenRef(chat.value)),
                          !.pc = "failed"]
    /\ UNCHANGED <<now, eventsubVars>>

\* A conversion of a UserAccessToken about to be made, by value or by reference.
ConvertInit ==
    /\ pc = "start"
    /\ now = 1
    /\ file = None
    /\ token = None
    /\ user_token = None
    /\ panic = None
    /\ auth_server = "none"
    /\ channel = << >>
    /\ csrf_token = None
    /\ url_presented = FALSE
    /\ auth_response = None
    /\ provider_calls = << >>
    /\ call_time = None
    /\ loaded = "pending"
    /\ session_id = None
    /\ connect_url = InitialUrl
    /\ stream = "none"
    /\ msg = None
    /\ frames_read = 0
    /\ handled = "nothing"
    /\ conn_attempts = << >>
    /\ sub_calls = << >>
    /\ followers = {}
    /\ subscribers = {}
    /\ run_result = None
    /\ debug_build \in BOOLEAN
    /\ chat \in {ConversionTask(at, value) :
                    at \in {"from_owned", "update_token"}, value \in UserAccessTokens}

ConvertNext ==
    \/ FromUserAccessToken
    \/ UpdateToken

\* The conversions run to their end: a thread that can take a step takes it.
ConvertSpec == ConvertInit /\ [][ConvertNext]_vars /\ WF_vars(ConvertNext)

\* ------------------------------------------------------------------ claims
\* The `state` parameter of the callback the coordinator received.
ResponseState == Get(Unwrap(auth_response), "state")

\* The coordinator has received a callback and run verify_csrf_token on it.
Verified == IsSome(auth_response) /\ pc # "auth_verify"

\* C1: the code-for-token exchange is requested only when the callback's
\* `state` equals the anti-forgery token of the attempt; a callback whose
\* `state` is present but different ends the flow with the mismatch error,
\* with or without `code`, and no token is obtained.
C1_ExchangeOnlyOnMatchingState ==
    /\ Len(AnswersTo("exchange")) > 0 =>
          (IsSome(auth_response) /\ ResponseState = csrf_token)
    /\ (Verified /\ IsSome(ResponseState) /\ ResponseState # csrf_token) =>
          /\ pc = "panicked"
          /\ panic = Some("CsrfTokenMismatch")
          /\ AnswersTo("exchange") = << >>
          /\ user_token = None
          /\ token = None
          /\ GetTokenFromFile(file) = None

\* A callback with a foreign `state` and a `code` was rejected.
C1_Witness ==
    /\ panic = Some("CsrfTokenMismatch")
    /\ IsSome(ResponseState) /\ ResponseState # csrf_token
    /\ "code" \in DOMAIN Unwrap(auth_response)

\* C2: a callback without `state` is rejected with the missing-token error by
\* verify_csrf_token, before extract_url reads `code`, whatever `code` is, and
\* no exchange is requested.
C2_MissingStateRejectedFirst ==
    (Verified /\ ~IsSome(ResponseState)) =>
        /\ pc = "panicked"
        /\ panic = Some("NoCsrfToken")
        /\ AnswersTo("exchange") = << >>
        /\ user_token = None

\* A callback with a `code` and no `state` was rejected.
C2_Witness ==
    /\ panic = Some("NoCsrfToken")
    /\ ~IsSome(ResponseState)
    /\ "code" \in DOMAIN Unwrap(auth_response)

\* The loop body is about to run for a decoded text frame of type `type`.
Processing(type) ==
    /\ pc = "process"
    /\ Unwrap(msg).item = "text"
    /\ Unwrap(msg).ok
    /\ Unwrap(msg).data.type = type

\* The decoded frame the loop body is about to run for.
Frame == Unwrap(msg).data

\* The subscription-creation calls a step issues.
NewSubCalls == SubSeq(sub_calls', Len(sub_calls) + 1, Len(sub_calls'))

\* The connection attempts a step makes.
NewConnAttempts == SubSeq(conn_attempts', Len(conn_attempts) + 1, Len(conn_attempts'))

\* Both subscriptions, created and accepted for session `id`, in the fixed order.
BothSubscribed(id) ==
    << [event |-> "channel.follow", session |-> id, accepted |-> TRUE],
       [event |-> "channel.subscribe", session |-> id, accepted |-> TRUE] >>

\* C3: processing a Welcome frame with session id S and no reconnect url sets
\* session_id to S and leaves connect_url unchanged; with the token unexpired
\* and every request accepted it issues exactly the two subscription calls,
\* channel-follow then channel-subscribe, both for session S, and reports
\* success; it never reports success without them.
C3_WelcomeSubscribes ==
    [][ (Processing("welcome") /\ ~IsSome(Frame.reconnect_url)) =>
          /\ session_id' = Some(Frame.id)
          /\ connect_url' = connect_url
          /\ (/\ ~IsElapsed(Unwrap(user_token), now')
              /\ \A i \in 1..Len(NewSubCalls) : NewSubCalls[i].accepted) =>
                 /\ NewSubCalls = BothSubscribed(Frame.id)
                 /\ pc' = "read"
                 /\ run_result' = None
                 /\ panic' = None
          /\ pc' = "read" => NewSubCalls = BothSubscribed(Frame.id) ]_vars

\* The first frame was a Welcome for session "abc" without a reconnect url and
\* both subscriptions were created.
C3_Witness ==
    /\ pc = "read"
    /\ handled = "welcome"
    /\ frames_read = 1
    /\ session_id = Some("abc")
    /\ connect_url = InitialUrl
    /\ sub_calls = BothSubscribed("abc")

\* C4: when a subscription-creation call of a Welcome is rejected, it is the
\* last call of that Welcome, `run` returns the error, and after `run` has
\* returned nothing more is read, subscribed or connected.
C4_FailedSubscriptionAborts ==
    [][ /\ pc = "process" =>
              \A i \in 1..Len(NewSubCalls) :
                 ~NewSubCalls[i].accepted =>
                    /\ i = Len(NewSubCalls)
                    /\ pc' = "run_returned"
                    /\ run_result' = Some("subscription error")
        /\ IsSome(run_result) =>
              /\ run_result' = run_result
              /\ frames_read' = frames_read
              /\ sub_calls' = sub_calls
              /\ conn_attempts' = conn_attempts ]_vars

\* The first subscription call of a Welcome was rejected and `run` returned.
C4_Witness ==
    /\ handled = "welcome"
    /\ run_result = Some("subscription error")
    /\ Len(sub_calls) = 1
    /\ ~sub_calls[1].accepted
    /\ sub_calls[1].event = "channel.follow"

\* The loop body is about to run for a reset-without-closing-handshake error.
ProcessingReset == pc = "process" /\ Unwrap(msg).item = "reset"

\* C5 as stated: every reset is followed by exactly one connection attempt to
\* the unchanged connect_url, after which the loop reads on and `run` does not
\* terminate.
C5_ResetAlwaysContinues ==
    [][ ProcessingReset =>
          /\ Len(NewConnAttempts) = 1
          /\ NewConnAttempts[1].url = connect_url
          /\ connect_url' = connect_url
          /\ pc' = "read"
          /\ run_result' = None ]_vars

\* C5, amended: every reset is followed by exactly one connection attempt to
\* the unchanged connect_url, without a counter limiting it; when the attempt
\* succeeds the loop reads on and `run` does not terminate, and when it fails
\* `run` returns the connection error.
C5_ResetReconnectsOnce ==
    [][ ProcessingReset =>
          /\ Len(NewConnAttempts) = 1
          /\ NewConnAttempts[1].url = connect_url
          /\ connect_url' = connect_url
          /\ frames_read' = frames_read
          /\ IF NewConnAttempts[1].connected
             THEN pc' = "read" /\ run_result' = None /\ panic' = None
             ELSE pc' = "run_returned" /\ run_result' = Some("connect error") ]_vars

\* Two resets in a row after a frame moved connect_url: three connection
\* attempts, the last two to the current url, and the loop reads on.
C5_Witness ==
    /\ pc = "read"
    /\ handled = "reset"
    /\ Len(conn_attempts) = 3
    /\ connect_url # InitialUrl
    /\ conn_attempts[2].url = connect_url
    /\ conn_attempts[3].url = connect_url

\* C6: processing a Reconnect frame that carries url U leaves connect_url
\* equal to U, and every connection attempt targets the connect_url of the
\* moment, so the next attempt goes to U.
C6_ReconnectUrlAdopted ==
    [][ /\ (/\ Processing("reconnect")
            /\ IsSome(Frame.reconnect_url)
            /\ IsSome(ParseUrl(Unwrap(Frame.reconnect_url)))) =>
               connect_url' = Unwrap(ParseUrl(Unwrap(Frame.reconnect_url)))
        /\ \A i \in 1..Len(NewConnAttempts) : NewConnAttempts[i].url = connect_url ]_vars

\* A Reconnect frame moved connect_url away from the configured url.
C6_Witness ==
    /\ handled = "reconnect"
    /\ pc = "read"
    /\ connect_url = "wss://reconnect.example/ws"
    /\ conn_attempts[1].url = InitialUrl

\* C7: once a Reconnect frame has been processed, the next thing the session
\* does is a connection attempt to the new connect_url; no frame is read from
\* the old connection first.
C7_ReconnectReentersConnecting ==
    [][ (pc = "read" /\ handled = "reconnect") =>
          /\ frames_read' = frames_read
          /\ Len(NewConnAttempts) = 1
          /\ NewConnAttempts[1].url = connect_url ]_vars

\* into_user_token was called on a record whose valid_till is strictly before
\* the instant it read.
CalledOnExpired ==
    /\ IsSome(call_time)
    /\ IsSome(token)
    /\ Unwrap(token).valid_till < Unwrap(call_time)

\* The provider accepted every request made so far.
ProviderAcceptedAll == \A i \in 1..Len(provider_calls) : provider_calls[i].accepted

\* into_user_token has returned its token to run_eventsub_client.
Materialized ==
    \/ pc \in {"new_client", "connect"}
    \/ panic = Some("Unable to get User ID from Twitch")

\* C8: for a stored record with valid_till strictly before the call time,
\* whatever its optional scopes are, and a provider that accepts every request,
\* into_user_token makes exactly one refresh call and the record derived from
\* the returned token has a valid_till strictly after the call time. (A record
\* without a refresh token is left out: no grant can be requested for it.)
C8_ExpiredRefreshedOnce ==
    (/\ CalledOnExpired
     /\ IsSome(Unwrap(token).refresh_token)
     /\ ProviderAcceptedAll
     /\ pc # "refresh_expired") =>
        /\ Len(AnswersTo("refresh")) = 1
        /\ Materialized =>
              /\ IsSome(GetTokenFromFile(file))
              /\ Unwrap(GetTokenFromFile(file)).valid_till > Unwrap(call_time)

\* C9: into_user_token takes the refresh branch exactly when the instant it
\* read is at or after valid_till.
C9_RefreshIffNotBefore ==
    /\ pc = "refresh_expired" => Unwrap(call_time) >= Unwrap(token).valid_till
    /\ pc = "from_existing" => Unwrap(call_time) < Unwrap(token).valid_till

\* The provider has rejected a refresh grant.
RefreshGrantRejected ==
    \E i \in 1..Len(provider_calls) : provider_calls[i] = ProviderCall("refresh", FALSE)

\* C10: when the provider rejects the refresh grant, into_user_token panics
\* and returns no token; the token file keeps the record it held, and neither
\* in the rejecting step nor later is an authorization attempt started.
C10_RejectedRefreshIsFatal ==
    /\ [](RefreshGrantRejected =>
            /\ pc = "panicked"
            /\ panic = Some("Unable to refresh token")
            /\ GetTokenFromFile(file) = token)
    /\ [][RefreshGrantRejected' =>
            /\ UNCHANGED <<file, user_token, channel, csrf_token, url_presented>>
            /\ auth_server' \in {auth_server, "finished"}]_vars

\* A refresh grant was rejected for a record loaded from the token file.
C10_Witness ==
    /\ RefreshGrantRejected
    /\ pc = "panicked"
    /\ IsSome(GetTokenFromFile(file))
    /\ loaded = "Ok"
    /\ auth_server = "none"

\* C11: a record written by `save` and immediately reloaded by `from_file`
\* from the same path is equal to the record saved on access_token,
\* refresh_token, created_at, valid_till and scopes, absent values included:
\* each step that saves a record leaves a file that loads as that record.
C11_SaveLoadRoundTrip ==
    [][ /\ (pc = "save" /\ pc' = "into_user_token") =>
               GetTokenFromFile(file') = token
        /\ (pc = "save_refreshed" /\ pc' = "new_client") =>
               GetTokenFromFile(file') =
                   Some(TokenFromUserToken(Unwrap(user_token), now')) ]_vars

\* A record without refresh token and without scopes was saved and the file
\* holds a document that is not the record itself.
C11_Witness ==
    /\ pc = "into_user_token"
    /\ ~IsSome(Unwrap(token).refresh_token)
    /\ ~IsSome(Unwrap(token).scopes)
    /\ Unwrap(token).valid_till > 0
    /\ file = Save(Unwrap(token))
    /\ Unwrap(file).fields["refresh_token"] = JsonNull

\* The run loaded its record from the token file, and into_user_token read
\* the clock strictly before the record's valid_till.
LoadedStillValid ==
    /\ loaded = "Ok"
    /\ IsSome(call_time)
    /\ Unwrap(token).valid_till > Unwrap(call_time)

\* C12: a start that finds no readable token file runs the authorization
\* coordinator, and the token obtained from an accepted exchange is what the
\* file holds once the run has gone past its save; a start that finds a record
\* loads it and, when its valid_till is in the future, materializes it without
\* a listener, a presented url, an exchange or a refresh call.
C12_StartupScenario ==
    /\ [][ (pc = "start" /\ pc' # "start") =>
              IF IsSome(GetTokenFromFile(file))
              THEN pc' = "save" /\ loaded' = "Ok" /\ token' = GetTokenFromFile(file)
              ELSE pc' = "auth_spawn" /\ loaded' = "Err" ]_vars
    /\ [][ (loaded = "Err" /\ pc = "save" /\ pc' = "into_user_token") =>
              /\ AnswersTo("exchange") = <<TRUE>>
              /\ ResponseState = csrf_token
              /\ "code" \in DOMAIN Unwrap(auth_response)
              /\ Unwrap(token).access_token = Unwrap(user_token).access_token
              /\ GetTokenFromFile(file') = token ]_vars
    /\ [](LoadedStillValid =>
              /\ auth_server = "none"
              /\ ~url_presented
              /\ csrf_token = None
              /\ AnswersTo("exchange") = << >>
              /\ AnswersTo("refresh") = << >>
              /\ (ProviderAcceptedAll /\ pc # "from_existing") =>
                    /\ Materialized
                    /\ Unwrap(user_token).access_token = Unwrap(token).access_token)

\* A run loaded the record an earlier run had obtained by authorization and
\* materialized it after one validation request.
C12_Witness ==
    /\ LoadedStillValid
    /\ pc = "connect"
    /\ Unwrap(token).access_token = "access2"
    /\ GetTokenFromFile(file) = token
    /\ provider_calls = <<ProviderCall("validate", TRUE)>>
    /\ auth_server = "none"

\* The loop body is about to run for a frame that carries nothing to act on:
\* a Notification of an event category without a handler, a Revocation or a
\* Keepalive.
ProcessingInert ==
    \/ Processing("revocation")
    \/ Processing("keepalive")
    \/ (Processing("notification")
          /\ Frame.event \notin {"channel.follow", "channel.subscribe"})

\* C13: a Notification of an unrecognized event category, a Revocation and a
\* Keepalive each leave session_id, connect_url, the follower set and the
\* subscriber set unchanged, return no error, and leave the loop reading on
\* the same connection.
C13_InertFramesChangeNothing ==
    [][ ProcessingInert =>
          /\ UNCHANGED <<session_id, connect_url, followers, subscribers>>
          /\ UNCHANGED <<conn_attempts, sub_calls>>
          /\ pc' = "read"
          /\ run_result' = None
          /\ panic' = None ]_vars

\* The first frame was a Notification that left both sets empty, so one of an
\* unrecognized category, and the loop reads on.
C13_Witness ==
    /\ handled = "notification"
    /\ frames_read = 1
    /\ pc = "read"
    /\ followers = {}
    /\ subscribers = {}
    /\ Len(conn_attempts) = 1

\* C14: a channel-follow Notification inserts the rendered display identity
\* into the follower set and leaves the subscriber set unchanged, a
\* channel-subscribe Notification does the converse, and a notification whose
\* identity is already in its set leaves both sets as they are.
C14_NotificationInserts ==
    [][ Processing("notification") =>
          /\ Frame.event = "channel.follow" =>
                /\ followers' = followers \cup {DisplayName(Frame)}
                /\ subscribers' = subscribers
                /\ DisplayName(Frame) \in followers => followers' = followers
          /\ Frame.event = "channel.subscribe" =>
                /\ subscribers' = subscribers \cup {DisplayName(Frame)}
                /\ followers' = followers
                /\ DisplayName(Frame) \in subscribers => subscribers' = subscribers
          /\ pc' = "read" ]_vars

\* A follow of alice and a subscription of bob have been processed in a debug
\* build, and the follow of alice has arrived again.
C14_Witness ==
    /\ debug_build
    /\ followers = {"alice1"}
    /\ subscribers = {"bob2"}
    /\ Processing("notification")
    /\ Frame.event = "channel.follow"
    /\ DisplayName(Frame) \in followers

\* The task of the session has stopped: `run` returned an error or panicked.
SessionOver == pc \in {"run_returned", "panicked"}

ProcessingFatal ==
    /\ pc = "process"
    /\ \/ Unwrap(msg).item \in {"error", "close"}
       \/ (Unwrap(msg).item = "text" /\ ~Unwrap(msg).ok)

\* C16: a read error other than reset-without-closing-handshake, a text frame
\* that fails to decode and an unexpected close frame are fatal in the same
\* way: `run` returns the error to its caller as an error value and the loop
\* is over.
C16_FatalErrorsAreReturned ==
    [][ /\ ProcessingFatal =>
              /\ pc' = "run_returned"
              /\ IsSome(run_result')
              /\ panic' = None
        /\ IsSome(run_result) => UNCHANGED <<run_result, frames_read>> ]_vars

\* The callback listener of the attempt has been cancelled.
ListenerCancelled == auth_server \in {"cancelled", "finished"}

\* C17: in one authorization attempt the coordinator consumes exactly one
\* callback, the first one delivered: it takes the only query delivered so
\* far and never replaces it, whatever is delivered afterwards. Once that
\* callback has been delivered the listener is cancelled, stays cancelled and
\* shuts down without being served again, whether the validation and the
\* exchange that follow succeed or fail.
C17_OneCallbackListenerCancelled ==
    /\ [][ pc' # "start" =>
             /\ IsSome(auth_response) => auth_response' = auth_response
             /\ (auth_response = None /\ IsSome(auth_response')) =>
                   /\ channel = <<Unwrap(auth_response')>>
                   /\ channel' = << >>
             /\ ListenerCancelled => ListenerCancelled'
             /\ auth_server = "finished" =>
                   /\ auth_server' = "finished"
                   /\ channel' \in {channel, << >>} ]_vars
    /\ [](Len(channel) <= 1)
    /\ []((IsSome(auth_response) \/ Len(channel) > 0) => ListenerCancelled)

\* A second callback was delivered after the first had been consumed; it
\* waits in the channel while the coordinator works on the first, and the
\* listener has shut down.
C17_Witness ==
    /\ pc = "auth_extract"
    /\ IsSome(auth_response)
    /\ Len(channel) = 1
    /\ Head(channel) # Unwrap(auth_response)
    /\ auth_server = "finished"

\* An authorization coordinator flow of the EventSub task is in progress.
EventsubFlowActive == pc \in CoordinatorStages

\* An authorization coordinator flow of the chat task is in progress.
ChatFlowActive == chat.pc \in CoordinatorStages

\* C18: at most one authorization attempt is in flight at any time: in no
\* reachable state, a start with both token files missing included, are the
\* coordinator flows of the two tasks, each with a listener task of its own
\* for the fixed local port, active together.
C18_OneAttemptInFlight == ~(EventsubFlowActive /\ ChatFlowActive)

\* The coordinator has received a callback and is done with it: it has left
\* the validation and the exchange, one way or the other.
Resolved == IsSome(auth_response) /\ pc \notin {"auth_verify", "auth_extract"}

\* The callback the coordinator received carries key `key`.
Carries(key) == key \in DOMAIN Unwrap(auth_response)

\* No token came out of the attempt: none exchanged, none held, none in the file.
NoTokenObtained ==
    /\ AnswersTo("exchange") = << >>
    /\ user_token = None
    /\ token = None
    /\ GetTokenFromFile(file) = None

\* C19: a callback that carries both `error` and `error_description` ends the
\* authorization flow in a panic, whatever else it carries: no exchange is
\* requested, no token is obtained or persisted, and the run starts no second
\* attempt.
C19_ProviderDenialIsFatal ==
    /\ []((Resolved /\ Carries("error") /\ Carries("error_description")) =>
             /\ pc = "panicked"
             /\ NoTokenObtained)
    /\ [][(/\ IsSome(auth_response)
           /\ Carries("error") /\ Carries("error_description")
           /\ pc' # "start") =>
             /\ pc' \notin {"auth_spawn", "auth_url", "auth_recv"}
             /\ auth_server' # "spawned"
             /\ UNCHANGED <<csrf_token, url_presented>>]_vars

\* A callback with the attempt's `state`, a `code` and both error parameters
\* made extract_url panic.
C19_Witness ==
    /\ panic = Some("Unable to get token")
    /\ IsSome(auth_response)
    /\ ResponseState = csrf_token
    /\ Carries("code")
    /\ Carries("error") /\ Carries("error_description")
    /\ provider_calls = << >>

\* C20: a callback with the attempt's `state`, no `code` and no error
\* parameter is fatal to the attempt: no exchange is requested and no token
\* is obtained.
C20_MissingCodeIsFatal ==
    (/\ Resolved
     /\ ResponseState = csrf_token
     /\ ~Carries("code")
     /\ ~Carries("error") /\ ~Carries("error_description")) =>
        /\ pc = "panicked"
        /\ NoTokenObtained

\* A callback that carries the attempt's `state` and nothing else ended in
\* the unimplemented arm of request_user_token.
C20_Witness ==
    /\ panic = Some("not yet implemented")
    /\ IsSome(auth_response)
    /\ DOMAIN Unwrap(auth_response) = {"state"}
    /\ ResponseState = csrf_token

\* C21: for a session constructed without a session id, session_id stays
\* absent until a Welcome frame has been processed: it is set by no step other
\* than the processing of a Welcome frame, so not by a Reconnect, a
\* Notification, a Revocation, a Keepalive or a frame that is not text.
C21_SessionIdOnlyFromWelcome ==
    [][ session_id' # session_id => Processing("welcome") ]_vars

\* A subscription-creation call of the step was rejected.
SubscriptionRejected == \E i \in 1..Len(NewSubCalls) : ~NewSubCalls[i].accepted

\* C22: when a subscription-creation call of a Welcome is rejected, no partial
\* subscription set is retained: none of the calls the same Welcome issued
\* before it has created a subscription for the session at the provider (the
\* session issues creation calls only, so what a call created stays).
C22_NoPartialSubscriptionSet ==
    [][ (Processing("welcome") /\ SubscriptionRejected) =>
          /\ pc' = "run_returned"
          /\ \A i \in 1..Len(NewSubCalls) : ~NewSubCalls[i].accepted ]_vars

\* The record the token file holds.
FileRecord == Unwrap(GetTokenFromFile(file))

\* C23: when into_user_token has refreshed an expired record, the refreshed
\* record is written before into_user_token returns to the token file of the
\* purpose the record was loaded from: the eventsub file, which held the old
\* record, holds the record derived from the refreshed token once
\* into_user_token has returned, and the chat file is left as it was.
C23_RefreshedRecordSaved ==
    /\ [](pc = "save_refreshed" => GetTokenFromFile(file) = token)
    /\ [][ (pc = "save_refreshed" /\ pc' \notin {"save_refreshed", "panicked"}) =>
            /\ pc' = "new_client"
            /\ file' = Save(TokenFromUserToken(Unwrap(user_token), now'))
            /\ chat'.file = chat.file ]_vars
    /\ []((Materialized /\ Len(AnswersTo("refresh")) > 0) =>
            /\ IsSome(GetTokenFromFile(file))
            /\ FileRecord.access_token = Unwrap(user_token).access_token
            /\ FileRecord.refresh_token = Unwrap(user_token).refresh_token
            /\ FileRecord.valid_till >= Unwrap(call_time))

\* A record loaded from the eventsub file was refreshed and into_user_token
\* has returned: the eventsub file holds the refreshed record.
C23_Witness ==
    /\ pc = "new_client"
    /\ loaded = "Ok"
    /\ AnswersTo("refresh") = <<TRUE>>
    /\ FileRecord.access_token = "access1"
    /\ Unwrap(token).access_token = "access0"
    /\ chat.file = None

\* The loop body is about to run for a Welcome frame whose reconnect url, if
\* any, parses, with a token that is unexpired when the frame is processed and
\* a provider that accepts the calls of the step.
WelcomeAccepted ==
    /\ Processing("welcome")
    /\ IsSome(WelcomeConnectUrl(Frame, connect_url))
    /\ ExpiresIn(Unwrap(user_token), now') > 0
    /\ ~SubscriptionRejected

C25_ListenerBeforeUrl ==
    [][ (~url_presented /\ url_presented') => auth_server = "serving" ]_vars

\* C26: a failure of the initial connection attempt of `run` is returned to
\* the caller of `run` without a retry: the failed attempt is the only
\* connection attempt ever made, no stream is opened and nothing is read.
C26_InitialConnectFailureReturned ==
    (Len(conn_attempts) > 0 /\ ~conn_attempts[1].connected) =>
        /\ Len(conn_attempts) = 1
        /\ run_result = Some("connect error")
        /\ pc \in {"run_returned", "panicked"}
        /\ stream = "none"
        /\ frames_read = 0
        /\ msg = None
        /\ sub_calls = << >>

\* The first connection attempt, to the configured url, failed and `run`
\* returned the error.
C26_Witness ==
    /\ pc = "run_returned"
    /\ conn_attempts = <<[url |-> InitialUrl, connected |-> FALSE]>>
    /\ run_result = Some("connect error")
    /\ frames_read = 0

\* The outcome of the latest connection attempt.
LastAttempt == conn_attempts[Len(conn_attempts)]

\* C27: when the one reconnection attempt made after a
\* reset-without-closing-handshake error fails, `run` terminates and returns
\* that connection error; the reconnection is not attempted again and nothing
\* more is read.
C27_FailedReconnectionReturned ==
    /\ [][ (ProcessingReset /\ ~conn_attempts'[Len(conn_attempts')].connected) =>
             /\ Len(conn_attempts') = Len(conn_attempts) + 1
             /\ pc' = "run_returned"
             /\ run_result' = Some("connect error") ]_vars
    /\ []((Len(conn_attempts) > 1 /\ ~LastAttempt.connected) =>
             /\ handled = "reset"
             /\ run_result = Some("connect error")
             /\ pc \in {"run_returned", "panicked"})
    /\ [][ run_result = Some("connect error") =>
             UNCHANGED <<run_result, conn_attempts, frames_read, stream, msg>> ]_vars

\* A reset was read on the first connection and the reconnection attempt
\* failed: two attempts, and `run` returned the connection error.
C27_Witness ==
    /\ pc = "run_returned"
    /\ handled = "reset"
    /\ Len(conn_attempts) = 2
    /\ conn_attempts[1].connected
    /\ ~conn_attempts[2].connected
    /\ run_result = Some("connect error")

\* The calls a step issues are the first calls of the fixed set, in order,
\* each for session `id`.
IssuedInOrderFor(id) ==
    /\ Len(NewSubCalls) \in 1..Len(Subscriptions)
    /\ \A i \in 1..Len(NewSubCalls) :
          /\ NewSubCalls[i].event = Subscriptions[i]
          /\ NewSubCalls[i].session = id

\* C28 as stated: a Reconnect frame sets session_id to the frame's session id
\* and, when the token is unexpired, issues the full fixed set of
\* subscription-creation calls against that session id, while the read loop
\* keeps reading from the existing connection.
C28_ReconnectAsWelcome ==
    [][ Processing("reconnect") =>
          /\ session_id' = Some(Frame.id)
          /\ ExpiresIn(Unwrap(user_token), now') > 0 =>
                /\ IssuedInOrderFor(Frame.id)
                /\ Len(NewSubCalls) = Len(Subscriptions)
                /\ conn_attempts' = conn_attempts
                /\ pc' = "read" ]_vars

\* C28, amended: a Reconnect frame is processed by the path of a Welcome
\* frame. It sets session_id to the frame's session id and makes no connection
\* attempt. A reconnect url that does not parse makes `run` return the error
\* with no call issued; otherwise the url, if any, becomes connect_url, and
\* with the token unexpired the calls of the fixed set are issued in order
\* against that session id up to the first rejected one: when one is rejected
\* `run` returns the error, and when all are accepted the loop reads on from
\* the existing connection.
C28_ReconnectTakesWelcomePath ==
    [][ Processing("reconnect") =>
          /\ ProcessWelcomeMessage(Frame)
          /\ session_id' = Some(Frame.id)
          /\ UNCHANGED <<conn_attempts, stream>>
          /\ IF ~IsSome(WelcomeConnectUrl(Frame, connect_url))
             THEN /\ sub_calls' = sub_calls
                  /\ pc' = "run_returned"
                  /\ run_result' = Some("url parse error")
             ELSE /\ connect_url' = Unwrap(WelcomeConnectUrl(Frame, connect_url))
                  /\ IF ExpiresIn(Unwrap(user_token), now') = 0
                     THEN sub_calls' = sub_calls /\ pc' = "panicked"
                     ELSE /\ IssuedInOrderFor(Frame.id)
                          /\ IF SubscriptionRejected
                             THEN /\ ~NewSubCalls[Len(NewSubCalls)].accepted
                                  /\ pc' = "run_returned"
                                  /\ run_result' = Some("subscription error")
                             ELSE /\ NewSubCalls = BothSubscribed(Frame.id)
                                  /\ pc' = "read"
                                  /\ run_result' = None ]_vars

\* The first frame was a Reconnect for session "xyz" that carried a url: the
\* session id is set, both subscriptions were created for "xyz", the url was
\* adopted, and the loop reads on with the one connection made so far.
C28_Witness ==
    /\ pc = "read"
    /\ handled = "reconnect"
    /\ frames_read = 1
    /\ session_id = Some("xyz")
    /\ sub_calls = BothSubscribed("xyz")
    /\ connect_url = "wss://reconnect.example/ws"
    /\ Len(conn_attempts) = 1

\* A read of the connection's stream has found its end.
StreamEnded == stream = "ended"

\* C29: once the frame stream of the connection has ended, `run` never
\* returns and never makes a connection attempt: it goes round the read loop,
\* every read finding the end again, the loop is never left or blocked, and
\* the session state stays as it was.
C29_EndedStreamSpins ==
    /\ [](StreamEnded =>
             /\ pc \in {"read", "process"}
             /\ run_result = None
             /\ panic = None
             /\ pc = "process" => Unwrap(msg).item = "end"
             /\ ENABLED (NextItem \/ ProcessItem))
    /\ [][ StreamEnded =>
             /\ StreamEnded'
             /\ UNCHANGED <<session_id, connect_url, user_token, conn_attempts, sub_calls,
                            followers, subscribers, frames_read>> ]_vars

\* The stream ended after a Welcome had been processed, and the loop has
\* been round once since: the session is as the Welcome left it.
C29_Witness ==
    /\ StreamEnded
    /\ pc = "read"
    /\ handled = "end"
    /\ frames_read = 1
    /\ session_id = Some("abc")
    /\ sub_calls = BothSubscribed("abc")
    /\ Len(conn_attempts) = 1

\* into_user_token was called on an expired record whose scopes are absent.
ExpiredWithoutScopes == CalledOnExpired /\ ~IsSome(Unwrap(token).scopes)

\* C30: into_user_token on an expired record whose scopes are absent panics
\* in refresh_expired before any request is made to the provider: no refresh
\* call is made, no token is returned, and the token file keeps the record.
C30_AbsentScopesPanicBeforeRefresh ==
    /\ []((ExpiredWithoutScopes /\ pc # "refresh_expired") =>
             /\ pc = "panicked"
             /\ panic = Some("called Option::unwrap on a None value")
             /\ provider_calls = << >>
             /\ user_token = None
             /\ GetTokenFromFile(file) = token)
    /\ [][ (ExpiredWithoutScopes /\ pc = "refresh_expired") =>
             /\ pc' \in {"refresh_expired", "panicked"}
             /\ UNCHANGED <<file, provider_calls, user_token>> ]_vars

\* A record with a refresh token and without scopes was loaded after its
\* valid_till, and into_user_token panicked on the scopes.
C30_Witness ==
    /\ pc = "panicked"
    /\ panic = Some("called Option::unwrap on a None value")
    /\ loaded = "Ok"
    /\ ExpiredWithoutScopes
    /\ IsSome(Unwrap(token).refresh_token)
    /\ Unwrap(token).valid_till > 0

\* The callback the coordinator received carries the attempt's `state`, a
\* `code`, and exactly one of `error` and `error_description`.
HalfDenial ==
    /\ IsSome(auth_response)
    /\ ResponseState = csrf_token
    /\ Carries("code")
    /\ Carries("error") # Carries("error_description")

\* C31: a denial is recognised only when both `error` and `error_description`
\* are present: a callback that carries exactly one of them with the attempt's
\* `state` and a `code` is not taken for a denial, the step of extract_url
\* sends the code-for-token exchange, and the token of an accepted exchange is
\* in hand.
C31_HalfDenialProceeds ==
    /\ [][ (HalfDenial /\ pc = "auth_extract" /\ pc' # pc) =>
             /\ \E accepted \in BOOLEAN :
                   provider_calls' = Append(provider_calls, ProviderCall("exchange", accepted))
             /\ panic' # Some("Unable to get token")
             /\ panic' # Some("not yet implemented") ]_vars
    /\ []((HalfDenial /\ Resolved) =>
             /\ Len(AnswersTo("exchange")) = 1
             /\ AnswersTo("exchange") = <<TRUE>> => IsSome(user_token)
             /\ AnswersTo("exchange") = <<FALSE>> =>
                   panic = Some("Failed to get user token from Twitch"))

\* A callback with the attempt's `state`, a `code` and `error` alone went on
\* to an accepted exchange.
C31_Witness ==
    /\ pc = "auth_convert"
    /\ HalfDenial
    /\ DOMAIN Unwrap(auth_response) = {"state", "code", "error"}
    /\ provider_calls = <<ProviderCall("exchange", TRUE)>>
    /\ IsSome(user_token)

\* C32: the conversion of an owned UserAccessToken into a Token terminates
\* and yields the record the conversion of a reference to it yields
\* (created_at copied, valid_till = expires_at, or created_at + 600 s when
\* expires_at is absent, scopes absent).
C32_OwnedConversionReturns ==
    (chat.pc = "from_owned") ~>
        (/\ chat.pc = "returned"
         /\ chat.token = Some(TokenFromUserAccessTokenRef(chat.value)))

====
